---- MODULE Spec2Model ----
(***************************************************************************)
(* Model of cupy.sparse.linalg.lsqr (src/cupy/sparse/linalg/solve.py).     *)
(* One call of lsqr(A, b) is a straight-line program; every statement of   *)
(* the function body is one action and pc is the position in the body.     *)
(* Arrays are abstracted to what the function reads of them: layout,       *)
(* shape, element type (numpy type character), nnz; contents are symbolic. *)
(***************************************************************************)
EXTENDS Integers, Sequences, FiniteSets, TLC

\* ------------------------------------------------------------------ bounds
\* largest extent of a dimension of A or b
MaxDim == 2
\* largest number of stored entries of A
MaxNnz == 1

\* ------------------------------------------------------- program constants
\* line 54: tol = 1.0
tol == 1
\* line 55: reorder = 1
reorder == 1

None == "None"
NoValue == "unset"

\* ------------------------------------------------------------ element types
\* numpy type characters: bool, signed/unsigned integers of each width,
\* half, single, double, complex64, complex128
\* (the extended-precision types g, G and the object type O are left out)
test_types == <<"?", "b", "B", "h", "H", "i", "I", "l", "L", "q", "Q",
                "e", "f", "d", "F", "D">>

DTypes == {test_types[k] : k \in 1..Len(test_types)}

\* kind of a type character: "b"ool, "i" signed, "u" unsigned, "f"loat, "c"omplex
kind(c) ==
    IF c = "?" THEN "b"
    ELSE IF c \in {"b", "h", "i", "l", "q"} THEN "i"
    ELSE IF c \in {"B", "H", "I", "L", "Q"} THEN "u"
    ELSE IF c \in {"e", "f", "d"} THEN "f"
    ELSE "c"

\* size in bytes of one real component of the type
itemsize(c) ==
    IF c \in {"?", "b", "B"} THEN 1
    ELSE IF c \in {"h", "H", "e"} THEN 2
    ELSE IF c \in {"i", "I", "f", "F"} THEN 4
    ELSE 8

\* numpy.can_cast(from, to, casting='safe')
can_cast(from, to) ==
    LET kf == kind(from)  kt == kind(to)
        sf == itemsize(from)  st == itemsize(to)
    IN  IF kf = "b" THEN TRUE
        ELSE IF kt = "b" THEN FALSE
        ELSE IF kf = "i" THEN
            IF kt = "i" THEN st >= sf
            ELSE IF kt = "u" THEN FALSE
            ELSE st > sf \/ (sf = 8 /\ st = 8)
        ELSE IF kf = "u" THEN
            IF kt = "u" THEN st >= sf
            ELSE IF kt = "i" THEN st > sf
            ELSE st > sf \/ (sf = 8 /\ st = 8)
        ELSE IF kf = "f" THEN kt \in {"f", "c"} /\ st >= sf
        ELSE kt = "c" /\ st >= sf

\* numpy.find_common_type((c1, c2), ()).char: the first type of test_types
\* that both array types cast to safely
find_common_type(c1, c2) ==
    LET ok == {k \in 1..Len(test_types) :
                   can_cast(c1, test_types[k]) /\ can_cast(c2, test_types[k])}
    IN  test_types[CHOOSE k \in ok : \A j \in ok : k <= j]

\* ------------------------------------------------------------------ inputs
Dims == 1..MaxDim

\* the matrices a caller may pass: two-dimensional, dense or CSR, any type
Matrices ==
    [isCsr : BOOLEAN, shape : Dims \X Dims, dtype : DTypes, nnz : 0..MaxNnz,
     copy : {FALSE}]

NdimVals == {0, 1, 2}

Shapes ==
    UNION {[1..n -> 0..MaxDim] : n \in NdimVals}

BDTypes == {"i", "f", "d"}

\* the right-hand sides a caller may pass: a cupy array or some other object
Vectors ==
    [isCupy : BOOLEAN, shape : Shapes, dtype : BDTypes]

ndim(a) == Len(a.shape)

\* ------------------------------------------------------------------- state
VARIABLES
    cusolver_enabled,   \* cuda.cusolver_enabled
    A0,                 \* the caller's A
    A,                  \* the local A (rebound by line 39)
    b,                  \* the caller's b
    pc,                 \* position in the body of lsqr
    m, dtype, handle, nnz, x, singularity, csrlsvqr,   \* locals
    ret,                \* the returned tuple, <<>> until returned
    err,                \* the raised error, None until raised
    log,                \* collaborator calls made so far, in order
    calls               \* arguments of each native invocation, in order

vars == <<cusolver_enabled, A0, A, b, pc, m, dtype, handle, nnz, x,
          singularity, csrlsvqr, ret, err, log, calls>>

locals == <<m, dtype, handle, nnz, x, singularity, csrlsvqr>>

inputs == <<cusolver_enabled, A0, b>>

Init ==
    /\ cusolver_enabled \in BOOLEAN
    /\ A0 \in Matrices
    /\ A = A0
    /\ b \in Vectors
    /\ pc = "capability"
    /\ m = NoValue /\ dtype = NoValue /\ handle = NoValue /\ nnz = NoValue
    /\ x = NoValue /\ singularity = NoValue /\ csrlsvqr = NoValue
    /\ ret = <<>>
    /\ err = None
    /\ log = <<>>
    /\ calls = <<>>

\* raise e: the call ends, nothing else changes
Raise(e) ==
    /\ pc' = "raised"
    /\ err' = e

\* ----------------------------------------------------------- collaborators
\* sparse.isspmatrix_csr(A)
isspmatrix_csr(a) == a.isCsr

\* sparse.csr_matrix(A): a new matrix in CSR layout, same shape and type
csr_matrix(a) == [a EXCEPT !.isCsr = TRUE, !.copy = TRUE]

\* util._assert_nd_squareness(A) passes iff the two dimensions are equal
assert_nd_squareness(a) == a.shape[1] = a.shape[2]

\* util._assert_cupy_array(b) passes iff b is a cupy array
assert_cupy_array(v) == v.isCupy

\* x.astype(t): the same contents in element type t
astype(a, t) == [a EXCEPT !.dtype = t]

\* cupy.empty(n, dtype=t): an uninitialised buffer
empty(n, t) == [dtype |-> t, len |-> n, val |-> "empty"]

\* what the native routine may write into x
XVals == {"x1", "x2"}

\* what the native routine may write into the singularity scalar:
\* -1, or the index of the first singular diagonal entry
SingVals(n) == (0 - 1)..(n - 1)

\* cupy.linalg.norm(v), b - w, A.dot(v): symbolic values
norm(v) == [op |-> "norm", of |-> v]
sub(v, w) == [op |-> "sub", l |-> v, r |-> w]
dot(a, v) == [op |-> "dot", l |-> a, r |-> v]

\* ----------------------------------------------------------------- actions
\* mutant: the capability flag is not consulted
CheckCapability_Unchecked ==
    /\ pc = "capability"
    /\ pc' = "csr" /\ err' = err
    /\ UNCHANGED <<inputs, A, locals, ret, log, calls>>

\* lines 35-36
CheckCapability ==
    /\ pc = "capability"
    /\ IF ~cusolver_enabled
       THEN Raise("RuntimeError")
       ELSE pc' = "csr" /\ err' = err
    /\ UNCHANGED <<inputs, A, locals, ret, log, calls>>

\* lines 38-39
ConvertCsr ==
    /\ pc = "csr"
    /\ IF ~isspmatrix_csr(A)
       THEN A' = csr_matrix(A) /\ log' = Append(log, "csr_matrix")
       ELSE UNCHANGED <<A, log>>
    /\ pc' = "squareness"
    /\ UNCHANGED <<inputs, locals, ret, err, calls>>

\* mutant: the squareness assertion is left out
AssertSquareness_Skipped ==
    /\ pc = "squareness"
    /\ pc' = "cupy_array"
    /\ UNCHANGED <<inputs, A, locals, ret, err, log, calls>>

\* line 40
AssertSquareness ==
    /\ pc = "squareness"
    /\ log' = Append(log, "assert_nd_squareness")
    /\ IF ~assert_nd_squareness(A)
       THEN Raise("ShapeError")
       ELSE pc' = "cupy_array" /\ err' = err
    /\ UNCHANGED <<inputs, A, locals, ret, calls>>

\* line 41
AssertCupyArray ==
    /\ pc = "cupy_array"
    /\ log' = Append(log, "assert_cupy_array")
    /\ IF ~assert_cupy_array(b)
       THEN Raise("NotCupyArrayError")
       ELSE pc' = "check_b" /\ err' = err
    /\ UNCHANGED <<inputs, A, locals, ret, calls>>

\* mutant: the solver handle is acquired before b is validated
CheckB_AfterHandle ==
    /\ pc = "check_b"
    /\ m' = A.shape[1]
    /\ handle' = "cusolver_sp_handle"
    /\ log' = Append(log, "get_cusolver_sp_handle")
    /\ IF ndim(b) # 1 \/ b.shape[1] # m'
       THEN Raise("ValueError")
       ELSE pc' = "select_dtype" /\ err' = err
    /\ UNCHANGED <<inputs, A, dtype, nnz, x, singularity, csrlsvqr,
                   ret, calls>>

\* mutant: only the number of dimensions of b is checked, not its length
CheckB_NdimOnly ==
    /\ pc = "check_b"
    /\ m' = A.shape[1]
    /\ IF ndim(b) # 1
       THEN Raise("ValueError")
       ELSE pc' = "select_dtype" /\ err' = err
    /\ UNCHANGED <<inputs, A, dtype, handle, nnz, x, singularity, csrlsvqr,
                   ret, log, calls>>

\* lines 42-44; len(b) is evaluated only when b.ndim = 1
CheckB ==
    /\ pc = "check_b"
    /\ m' = A.shape[1]
    /\ IF ndim(b) # 1 \/ b.shape[1] # m'
       THEN Raise("ValueError")
       ELSE pc' = "select_dtype" /\ err' = err
    /\ UNCHANGED <<inputs, A, dtype, handle, nnz, x, singularity, csrlsvqr,
                   ret, log, calls>>

\* lines 47-50
SelectDtype ==
    /\ pc = "select_dtype"
    /\ IF A.dtype = "f" \/ A.dtype = "d"
       THEN dtype' = A.dtype
       ELSE dtype' = find_common_type(A.dtype, "f")
    /\ pc' = "handle"
    /\ UNCHANGED <<inputs, A, m, handle, nnz, x, singularity, csrlsvqr,
                   ret, err, log, calls>>

\* line 52
GetHandle ==
    /\ pc = "handle"
    /\ handle' = "cusolver_sp_handle"
    /\ log' = Append(log, "get_cusolver_sp_handle")
    /\ pc' = "alloc"
    /\ UNCHANGED <<inputs, A, m, dtype, nnz, x, singularity, csrlsvqr,
                   ret, err, calls>>

\* lines 53-57
Allocate ==
    /\ pc = "alloc"
    /\ nnz' = A.nnz
    /\ x' = empty(m, dtype)
    /\ singularity' = "empty"
    /\ log' = log \o <<"empty_x", "empty_singularity">>
    /\ pc' = "dispatch"
    /\ UNCHANGED <<inputs, A, m, dtype, handle, csrlsvqr, ret, err, calls>>

\* lines 59-62
Dispatch ==
    /\ pc = "dispatch"
    /\ IF dtype = "f"
       THEN csrlsvqr' = "scsrlsvqr"
       ELSE csrlsvqr' = "dcsrlsvqr"
    /\ pc' = "native"
    /\ UNCHANGED <<inputs, A, m, dtype, handle, nnz, x, singularity,
                   ret, err, log, calls>>

\* the arguments of lines 64-66, with the element type of each value buffer
\* whose address is passed
NativeArgs ==
    [variant |-> csrlsvqr, handle |-> handle, m |-> m, nnz |-> nnz,
     data |-> A.dtype, b |-> b.dtype, tol |-> tol, reorder |-> reorder,
     x |-> x.dtype]

\* mutant: a failed native call is tried again
NativeCall_Retry ==
    /\ pc = "native"
    /\ log' = Append(log, csrlsvqr)
    /\ \/ /\ calls' = Append(calls, [args |-> NativeArgs, outcome |-> "ok"])
          /\ \E v \in XVals : x' = [x EXCEPT !.val = v]
          /\ \E s \in SingVals(m) : singularity' = s
          /\ pc' = "astype"
       \/ /\ calls' = Append(calls, [args |-> NativeArgs, outcome |-> "raised"])
          /\ pc' = "native"
          /\ UNCHANGED <<x, singularity>>
    /\ UNCHANGED <<inputs, A, m, dtype, handle, nnz, csrlsvqr, ret, err>>

\* lines 63-66: the native routine either completes, having written x and the
\* singularity scalar, or raises; calls records the arguments and the outcome
NativeCall ==
    /\ pc = "native"
    /\ log' = Append(log, csrlsvqr)
    /\ \/ /\ calls' = Append(calls, [args |-> NativeArgs, outcome |-> "ok"])
          /\ \E v \in XVals : x' = [x EXCEPT !.val = v]
          /\ \E s \in SingVals(m) : singularity' = s
          /\ pc' = "astype"
          /\ err' = err
       \/ /\ calls' = Append(calls, [args |-> NativeArgs, outcome |-> "raised"])
          /\ Raise("CUSOLVERError")
          /\ UNCHANGED <<x, singularity>>
    /\ UNCHANGED <<inputs, A, m, dtype, handle, nnz, csrlsvqr, ret>>

\* mutant: x keeps the precision of the solve
Upcast_None ==
    /\ pc = "astype"
    /\ pc' = "norms"
    /\ UNCHANGED <<inputs, A, locals, ret, err, log, calls>>

\* line 67
Upcast ==
    /\ pc = "astype"
    /\ x' = astype(x, "d")
    /\ log' = Append(log, "astype")
    /\ pc' = "norms"
    /\ UNCHANGED <<inputs, A, m, dtype, handle, nnz, singularity, csrlsvqr,
                   ret, err, calls>>

\* mutant: a non-negative singularity flag is turned into an error
Return_RaiseIfSingular ==
    /\ pc = "norms"
    /\ IF singularity >= 0
       THEN Raise("LinAlgError") /\ UNCHANGED <<ret, log>>
       ELSE /\ ret' = <<x, None, None, norm(sub(b, dot(A, x))), None, None,
                        None, None, norm(x), None>>
            /\ log' = log \o <<"norm", "norm">>
            /\ pc' = "returned"
            /\ err' = err
    /\ UNCHANGED <<inputs, A, locals, calls>>

\* lines 69-72
Return ==
    /\ pc = "norms"
    /\ LET r1norm == norm(sub(b, dot(A, x)))
           xnorm == norm(x)
       IN  ret' = <<x, None, None, r1norm, None, None, None, None, xnorm, None>>
    /\ log' = log \o <<"norm", "norm">>
    /\ pc' = "returned"
    /\ UNCHANGED <<inputs, A, locals, err, calls>>

Next ==
    \/ CheckCapability
    \/ ConvertCsr
    \/ AssertSquareness
    \/ AssertCupyArray
    \/ CheckB
    \/ SelectDtype
    \/ GetHandle
    \/ Allocate
    \/ Dispatch
    \/ NativeCall
    \/ Upcast
    \/ Return

Spec == Init /\ [][Next]_vars

\* ------------------------------------------------------------------ claims
Has(e) == \E k \in 1..Len(log) : log[k] = e

Terminated == pc \in {"returned", "raised"}

Square == A0.shape[1] = A0.shape[2]

\* b is not one-dimensional, or its length is not the row count of A
BadB == ndim(b) # 1 \/ b.shape[1] # A0.shape[1]

BeforeChecksOfB ==
    pc \in {"capability", "csr", "squareness", "cupy_array", "check_b"}

\* C1: with the capability flag false the call raises the unsupported-
\* operation error (RuntimeError) at its first step, for every A and b:
\* no CSR conversion, no shape check, no handle, no allocation and no native
\* call has happened, and nothing is returned.
C1_UnsupportedFirst ==
    (~cusolver_enabled /\ pc # "capability") =>
        /\ pc = "raised"
        /\ err = "RuntimeError"
        /\ log = <<>>
        /\ calls = <<>>
        /\ A = A0
        /\ ret = <<>>

C1_Witness ==
    /\ ~cusolver_enabled
    /\ pc = "raised"
    /\ ~Square
    /\ ndim(b) = 2

\* C2: with the flag true and A non-square the call ends in the shape error,
\* whatever b is; the native routine is never invoked, nothing is returned.
C2_NonSquareShapeError ==
    (cusolver_enabled /\ ~Square) =>
        /\ pc \in {"capability", "csr", "squareness", "raised"}
        /\ (pc = "raised" => err = "ShapeError")
        /\ calls = <<>>
        /\ ret = <<>>

C2_Witness ==
    /\ cusolver_enabled
    /\ ~Square
    /\ ~b.isCupy
    /\ pc = "raised"
    /\ err = "ShapeError"

C4_Original ==
    (pc = "raised" /\ err \in {"ShapeError", "ValueError"}) =>
        /\ ~Has("csr_matrix")
        /\ ~Has("get_cusolver_sp_handle")
        /\ ~Has("empty_x")
        /\ calls = <<>>

\* C4 amended: when the call ends in a shape or value error, no handle
\* acquisition, no allocation and no native call has happened; the CSR
\* conversion has happened exactly when the caller's A was not CSR.
C4_Amended ==
    (pc = "raised" /\ err \in {"ShapeError", "ValueError"}) =>
        /\ ~Has("get_cusolver_sp_handle")
        /\ ~Has("empty_x")
        /\ ~Has("empty_singularity")
        /\ calls = <<>>
        /\ (Has("csr_matrix") <=> ~A0.isCsr)

C4_Witness ==
    /\ pc = "raised"
    /\ err = "ValueError"
    /\ ~A0.isCsr
    /\ Has("csr_matrix")

\* C5: a call that returns has returned 10 slots: slot 0 the solution in
\* double precision whatever the precision of the solve, slot 3 the norm of
\* b - A.x, slot 8 the norm of x, and None in the seven other slots.
C5_ResultTuple ==
    pc = "returned" =>
        /\ Len(ret) = 10
        /\ ret[1].dtype = "d"
        /\ ret[1].len = A0.shape[1]
        /\ ret[1].val \in XVals
        /\ ret[4] = norm(sub(b, dot(A, ret[1])))
        /\ ret[9] = norm(ret[1])
        /\ \A k \in {2, 3, 5, 6, 7, 8, 10} : ret[k] = None

C5_Witness ==
    /\ pc = "returned"
    /\ dtype = "f"
    /\ Len(ret) = 10

\* C6: the precision chosen is A's type when it is single or double and
\* else the common type of A's type and single; it is always single or
\* double.
C6_Claim ==
    dtype # NoValue =>
        /\ dtype = IF A.dtype \in {"f", "d"} THEN A.dtype
                   ELSE find_common_type(A.dtype, "f")
        /\ dtype \in {"f", "d"}

\* C7: the native routine is invoked at most once, and when it raises the
\* call ends with that error: no second invocation, no upcast, no norms and
\* no result.
C7_NativeFailureAborts ==
    /\ Len(calls) <= 1
    /\ \A k \in 1..Len(calls) :
           calls[k].outcome = "raised" =>
               /\ pc = "raised"
               /\ err = "CUSOLVERError"
               /\ ~Has("astype")
               /\ ~Has("norm")
               /\ ret = <<>>

C7_Witness ==
    /\ Len(calls) = 1
    /\ calls[1].outcome = "raised"
    /\ pc = "raised"

\* C8: once the native routine has completed, the call does not raise,
\* whatever was written to the singularity scalar, and what it returns is
\* the tuple built from A, b and x alone.
C8_SingularityIgnored ==
    \A k \in 1..Len(calls) :
        calls[k].outcome = "ok" =>
            /\ err = None
            /\ pc \in {"astype", "norms", "returned"}
            /\ pc = "returned" =>
                   ret = <<x, None, None, norm(sub(b, dot(A, x))), None, None,
                           None, None, norm(x), None>>

C8_Witness ==
    /\ pc = "returned"
    /\ singularity >= 0
    /\ Len(ret) = 10

\* C9: the single variant is invoked exactly when the element type of x is
\* single, the double variant exactly when it is double.
C9_Claim ==
    \A k \in 1..Len(calls) :
        /\ calls[k].args.variant = "scsrlsvqr" <=> calls[k].args.x = "f"
        /\ calls[k].args.variant = "dcsrlsvqr" <=> calls[k].args.x = "d"

\* the element type a native variant works in
VariantType(v) == IF v = "scsrlsvqr" THEN "f" ELSE "d"

\* C10: A's data buffer, b and x each have the element type of the variant
\* they are handed to.
C10_Claim ==
    \A k \in 1..Len(calls) :
        /\ calls[k].args.data = VariantType(calls[k].args.variant)
        /\ calls[k].args.b = VariantType(calls[k].args.variant)
        /\ calls[k].args.x = VariantType(calls[k].args.variant)

====
